---- MODULE Spec2Model ----
(***************************************************************************)
(* The Feedback concept (src/feedback.ts) and the frame data it consumes   *)
(* (PoseLandmark, LIMB_CONNECTIONS, FrameData, calculateLimbAngles).       *)
(*                                                                         *)
(* Representation.                                                         *)
(*  - A JavaScript string is a sequence of symbols.  A symbol is one       *)
(*    whitespace character " ", one of the punctuation characters "[",     *)
(*    "]", ",", or a word: a run of characters holding no whitespace and   *)
(*    no punctuation.  The symbol LongRun is a run of WORD_LIMIT + 1 words *)
(*    joined by single blanks.                                             *)
(*  - A number is an integer; NaN is a sentinel outside every value the    *)
(*    arithmetic can produce, and every operation on numbers tests for it. *)
(*  - accuracyValue is the exact rational [n, d] in lowest terms.          *)
(*  - A FrameData carries its id and its angles; landmarks and frameNumber *)
(*    are read by createFeedbackPrompt only, whose text goes to the LLM;   *)
(*    the LLM's answer is not a function of the prompt.                    *)
(*  - An invocation of analyze is a record of its position (pc, and stage: *)
(*    how many of its executeLLM calls have resolved) and its locals; the  *)
(*    record keeps the locals after the invocation has settled.  A step of *)
(*    the model is the code that runs between two awaits.  The text of an  *)
(*    error message is left out; error is the kind of error thrown.        *)
(*                                                                         *)
(* Specifications.                                                         *)
(*    Spec       analyze calls interleaving at their awaits, getFeedback   *)
(*    SpecSeq    the same, each analyze awaited before the next is made    *)
(*    SpecScore  calculateLimbAngles, computeAngleDifference and           *)
(*               calculateAccuracy as functions of their inputs            *)
(***************************************************************************)
EXTENDS Integers, Sequences, FiniteSets, TLC

(* ------------------------------ bounds -------------------------------- *)

\* analyze calls that may be in flight or settled on one Feedback object
MaxCalls == 2

\* longest angles array of a FrameData handed to analyze
MaxAngles == 1

\* longest primary LLM answer, in symbols
MaxChunks == 1

\* longest answer to a follow-up prompt (landmark list, mood), in symbols
MaxRespLen == 2

\* largest coordinate of a landmark of a scored snapshot
MaxCoord == 1

\* longest angles array of a scored pair of frames
MaxScoreLen == 3

(* ------------------------------ numbers ------------------------------- *)

NaN == -1000000

isNaN(x) == x = NaN

\* a - b in IEEE arithmetic on the modelled values: NaN if either is NaN
NumSub(a, b) == IF isNaN(a) \/ isNaN(b) THEN NaN ELSE a - b

Abs(x) == IF x < 0 THEN -x ELSE x

RECURSIVE Gcd(_, _)
Gcd(a, b) == IF b = 0 THEN a ELSE Gcd(b, a % b)

\* the rational n / d (n >= 0, d > 0) in lowest terms
Rat(n, d) == LET g == Gcd(n, d) IN [n |-> n \div g, d |-> d \div g]

(* ------------------------- sequences of symbols ----------------------- *)

RECURSIVE SeqsUpTo(_, _)
SeqsUpTo(S, n) ==
    IF n = 0 THEN {<<>>}
    ELSE LET shorter == SeqsUpTo(S, n - 1)
         IN  shorter \cup {Append(s, x) : s \in {t \in shorter : Len(t) = n - 1}, x \in S}

WS == " "

\* String.prototype.trim
RECURSIVE TrimLeft(_)
TrimLeft(s) == IF Len(s) > 0 /\ s[1] = WS THEN TrimLeft(Tail(s)) ELSE s

RECURSIVE TrimRight(_)
TrimRight(s) ==
    IF Len(s) > 0 /\ s[Len(s)] = WS THEN TrimRight(SubSeq(s, 1, Len(s) - 1)) ELSE s

trim(s) == TrimRight(TrimLeft(s))

(* --------------------------- frame data ------------------------------- *)

FrameIds == {"a", "b"}

AngleValues == {NaN, 0, 180}

AngleSeqs == SeqsUpTo(AngleValues, MaxAngles)

FrameData(id, angles) == [id |-> id, angles |-> angles]

(* --------------------------- angle extractor -------------------------- *)

\* LIMB_CONNECTIONS, by the enum values of the two landmarks
LIMB_CONNECTIONS == << <<0, 2>>, <<2, 4>>, <<1, 3>>, <<3, 5>> >>

\* a landmark the frameLandmarks array holds no point for (undefined)
Absent == <<>>

Coords == 0..MaxCoord

Points == Coords \X Coords

LandmarkIndices == 0..5

Snapshots == [LandmarkIndices -> Points \cup {Absent}]

\* atan(y / x) for 0 < y, 0 < x in whole degrees: exact when y = x; for
\* the two other ratios of coordinates up to 2, 1/2 and 2, the nearest
\* degree to 26.565 and to 63.435
AtanDeg(y, x) ==
    IF y = x THEN 45
    ELSE IF y < x THEN 27 ELSE 63

\* Math.atan2(y, x) in degrees, in (-180, 180]
Atan2Deg(y, x) ==
    IF x > 0 THEN (IF y = 0 THEN 0
                   ELSE IF y > 0 THEN AtanDeg(y, x) ELSE -AtanDeg(-y, x))
    ELSE IF x < 0 THEN (IF y = 0 THEN 180
                        ELSE IF y > 0 THEN 180 - AtanDeg(y, -x)
                        ELSE AtanDeg(-y, -x) - 180)
    ELSE (IF y > 0 THEN 90 ELSE IF y < 0 THEN -90 ELSE 0)

\* the loop body without the fold of the reflex angles onto [0, 180]
LimbAngleMut(frameLandmarks, connection) ==
    LET startPoint == frameLandmarks[connection[1]]
        endPoint == frameLandmarks[connection[2]]
    IN  IF startPoint = Absent \/ endPoint = Absent THEN NaN
        ELSE LET dx == endPoint[1] - startPoint[1]
                 dy == endPoint[2] - startPoint[2]
                 angle == Atan2Deg(dx, dy)
             IN  IF angle < 0 THEN 360 + angle ELSE angle

\* one pass of the loop body of calculateLimbAngles; the comparisons are
\* made on the angle in degrees where the code makes them in radians
LimbAngle(frameLandmarks, connection) ==
    LET startPoint == frameLandmarks[connection[1]]
        endPoint == frameLandmarks[connection[2]]
    IN  IF startPoint = Absent \/ endPoint = Absent THEN NaN
        ELSE LET dx == endPoint[1] - startPoint[1]
                 dy == endPoint[2] - startPoint[2]
                 angle == Atan2Deg(dx, dy)
                 normalizedAngle == IF angle < 0 THEN 360 + angle ELSE angle
             IN  IF normalizedAngle > 180 THEN 360 - normalizedAngle
                 ELSE normalizedAngle

calculateLimbAngles(frameLandmarks) ==
    [i \in 1..Len(LIMB_CONNECTIONS) |-> LimbAngle(frameLandmarks, LIMB_CONNECTIONS[i])]

(* ------------------------- difference scorer -------------------------- *)

\* a slip of the index: every practice angle against the first reference angle
computeAngleDifferenceMut(reference, practice) ==
    [i \in 1..Len(reference.angles) |->
        IF i <= Len(practice.angles)
        THEN NumSub(practice.angles[i], reference.angles[1])
        ELSE 0]

\* for (i < reference.angles.length): practice.angles[i] !== undefined
\*   ? practice.angles[i] - reference.angles[i] : 0
computeAngleDifference(reference, practice) ==
    [i \in 1..Len(reference.angles) |->
        IF i <= Len(practice.angles)
        THEN NumSub(practice.angles[i], reference.angles[i])
        ELSE 0]

RECURSIVE SumAbs(_)
SumAbs(values) ==
    IF Len(values) = 0 THEN 0
    ELSE (IF isNaN(values[1]) THEN 0 ELSE Abs(values[1])) + SumAbs(Tail(values))

\* NaN differences counted as well: the mean over every position
CountNumericMut(values) == Len(values)

RECURSIVE CountNumeric(_)
CountNumeric(values) ==
    IF Len(values) = 0 THEN 0
    ELSE (IF isNaN(values[1]) THEN 0 ELSE 1) + CountNumeric(Tail(values))

\* 100 - avgDiff without Math.max
ClampedScoreMut(sum, count) == Rat(100 * count - sum, count)

\* Math.max(0, 100 - avgDiff)
ClampedScore(sum, count) ==
    IF sum >= 100 * count THEN Rat(0, 1) ELSE Rat(100 * count - sum, count)

calculateAccuracy(differences) ==
    IF Len(differences) = 0 THEN Rat(0, 1)
    ELSE LET sum == SumAbs(differences)
             count == CountNumeric(differences)
         IN  IF count = 0 THEN Rat(0, 1) ELSE ClampedScore(sum, count)

(* ------------------------ landmark vocabulary -------------------------- *)

\* enum PoseLandmark: the name at position i has the value i - 1
PoseLandmark ==
    <<"LEFT_SHOULDER", "RIGHT_SHOULDER", "LEFT_ELBOW",
      "RIGHT_ELBOW", "LEFT_WRIST", "RIGHT_WRIST">>

PoseLandmarkNames == {PoseLandmark[i] : i \in 1..Len(PoseLandmark)}

\* A numeric enum compiles to an object that also maps each value back to
\* its name, so the values are property keys of the object as well.
PoseLandmarkValueKeys == {"0", "1", "2", "3", "4", "5"}

\* Properties every object inherits from Object.prototype; the "in"
\* operator looks along the prototype chain.
ObjectPrototypeKeys ==
    {"constructor", "hasOwnProperty", "isPrototypeOf", "propertyIsEnumerable",
     "toLocaleString", "toString", "valueOf", "__proto__",
     "__defineGetter__", "__defineSetter__", "__lookupGetter__", "__lookupSetter__"}

RECURSIVE Concat(_)
Concat(symbols) ==
    IF Len(symbols) = 0 THEN "" ELSE symbols[1] \o Concat(Tail(symbols))

\* lm in PoseLandmark
InPoseLandmark(lm) ==
    Concat(lm) \in PoseLandmarkNames \cup PoseLandmarkValueKeys \cup ObjectPrototypeKeys

(* ------------------------- response validator ------------------------- *)

\* .replace(/^\[|\]$/g, ""): a "[" that opens the string and a "]" that
\* closes it are removed
StripBrackets(s) ==
    LET a == IF Len(s) > 0 /\ s[1] = "[" THEN Tail(s) ELSE s
    IN  IF Len(a) > 0 /\ a[Len(a)] = "]" THEN SubSeq(a, 1, Len(a) - 1) ELSE a

\* .split(","): the pieces between the commas, empty pieces included
RECURSIVE split(_)
split(s) ==
    IF \E i \in 1..Len(s) : s[i] = ","
    THEN LET i == CHOOSE k \in 1..Len(s) :
                      s[k] = "," /\ \A j \in 1..(k - 1) : s[j] # ","
         IN  <<SubSeq(s, 1, i - 1)>> \o split(SubSeq(s, i + 1, Len(s)))
    ELSE <<s>>

ParseLandmarks(existingLandmarksStr) ==
    LET pieces == split(StripBrackets(existingLandmarksStr))
    IN  [i \in 1..Len(pieces) |-> trim(pieces[i])]

\* the landmarks the loop of validateExistingLandmarks rejects, in order
UnknownLandmarks(existingLandmarksStr) ==
    SelectSeq(ParseLandmarks(existingLandmarksStr), LAMBDA lm : ~InPoseLandmark(lm))

\* TRUE when validateExistingLandmarks returns, FALSE when it throws
validateExistingLandmarks(existingLandmarksStr) ==
    Len(UnknownLandmarks(existingLandmarksStr)) = 0

\* answers of the LLM to createCheckExistingLandmarkPrompt
LandmarkSymbols == {"[", "]", ",", WS, "LEFT_WRIST", "LEFT_KNEE", "0"}

LandmarkResponses == SeqsUpTo(LandmarkSymbols, MaxRespLen)

\* String.prototype.toUpperCase, symbol by symbol
UpperSymbol(x) == IF x = "true" THEN "TRUE" ELSE x

toUpperCase(s) == [i \in 1..Len(s) |-> UpperSymbol(s[i])]

\* isPositive.trim().toUpperCase() === "TRUE"
isPositiveBool(isPositive) == Concat(toUpperCase(trim(isPositive))) = "TRUE"

\* answers of the LLM to createCheckMoodPrompt
MoodSymbols == {WS, "TRUE", "true", "FALSE"}

MoodResponses == SeqsUpTo(MoodSymbols, MaxRespLen)

WORD_LIMIT == 500

LongRun == "w*501"

WordsIn(x) == IF x = LongRun THEN WORD_LIMIT + 1 ELSE 1

\* pieces of a trimmed, non-empty string between its whitespace runs: a
\* symbol adds its words; a symbol that follows another without
\* whitespace continues the word the other ends with
RECURSIVE CountWords(_, _)
CountWords(s, i) ==
    IF i > Len(s) THEN 0
    ELSE (IF s[i] = WS THEN 0
          ELSE IF i > 1 /\ s[i - 1] # WS THEN WordsIn(s[i]) - 1
          ELSE WordsIn(s[i]))
         + CountWords(s, i + 1)

\* aiFeedback.trim().split(/\s+/).length; "".split(/\s+/) is [""]
wordCount(aiFeedback) ==
    LET t == trim(aiFeedback)
    IN  IF Len(t) = 0 THEN 1 ELSE CountWords(t, 1)

\* answers of the LLM to createFeedbackPrompt
FeedbackSymbols == {"Nice", LongRun}

FeedbackTexts == SeqsUpTo(FeedbackSymbols, MaxChunks) \ {<<>>}

(* ------------------------------ state ---------------------------------- *)

VARIABLES
    frames,        \* the caller's FrameData objects: id -> angles
    feedbackList,  \* Feedback.feedbackList
    calls,         \* the invocations of analyze: position and locals of each
    ret,           \* what getFeedback handed to its caller, if it was the last step
    job,           \* scoring: the input of one comparison
    result         \* scoring: its output

vars == <<frames, feedbackList, calls, ret, job, result>>

storeVars == <<frames, feedbackList, calls, ret>>

scoreVars == <<job, result>>

Calls == 1..MaxCalls

NoFrame == FrameData("", <<>>)

\* an invocation that has not been made yet
IdleCall ==
    [pc |-> "idle", stage |-> 0,
     referenceFrameData |-> NoFrame, practiceFrameData |-> NoFrame,
     accuracyValue |-> Rat(0, 1), aiFeedback |-> <<>>, feedbackID |-> "",
     error |-> "", warnings |-> {}]

NoReturn == [kind |-> "none"]

NoJob == [kind |-> "none"]

(* --------------------------- feedback store ---------------------------- *)

\* `fb-${referenceFrameData.id}-${practiceFrameData.id}`
FeedbackIdOf(referenceFrameData, practiceFrameData) ==
    "fb-" \o referenceFrameData.id \o "-" \o practiceFrameData.id

FeedbackIds == {FeedbackIdOf(FrameData(r, <<>>), FrameData(p, <<>>)) : r, p \in FrameIds}

FeedbackEntry(c) ==
    [feedbackID |-> c.feedbackID,
     referenceFrameData |-> c.referenceFrameData,
     practiceFrameData |-> c.practiceFrameData,
     feedback |-> c.aiFeedback,
     accuracyValue |-> c.accuracyValue]

\* this.feedbackList = [entry]
pushMut(list, entry) == <<entry>>

\* this.feedbackList.push(entry)
push(list, entry) == Append(list, entry)

HasEntry(list, feedbackID) == \E i \in 1..Len(list) : list[i].feedbackID = feedbackID

\* this.feedbackList.find((f) => f.feedbackID === feedbackID): the first match
find(list, feedbackID) ==
    list[CHOOSE i \in 1..Len(list) :
            /\ list[i].feedbackID = feedbackID
            /\ \A j \in 1..(i - 1) : list[j].feedbackID # feedbackID]

NotFound == [ok |-> FALSE, error |-> "NotFound"]

\* a blank result in place of the error
getFeedbackMut(list, feedbackID) ==
    IF ~HasEntry(list, feedbackID)
    THEN [ok |-> TRUE, feedback |-> <<>>, accuracyValue |-> Rat(0, 1)]
    ELSE LET entry == find(list, feedbackID)
         IN  [ok |-> TRUE, feedback |-> entry.feedback,
              accuracyValue |-> entry.accuracyValue]

\* the value getFeedback returns, or the error it throws
getFeedback(list, feedbackID) ==
    IF ~HasEntry(list, feedbackID) THEN NotFound
    ELSE LET entry == find(list, feedbackID)
         IN  [ok |-> TRUE, feedback |-> entry.feedback,
              accuracyValue |-> entry.accuracyValue]

(* ------------------------------ actions -------------------------------- *)

\* analyze, from its entry to the first await (feedback.ts 29-43)
AnalyzeCall(c, r, p) ==
    /\ calls[c].pc = "idle"
    /\ IF c = 1 THEN TRUE ELSE calls[c - 1].pc # "idle"
    /\ LET referenceFrameData == FrameData(r, frames[r])
           practiceFrameData == FrameData(p, frames[p])
           diff == computeAngleDifference(referenceFrameData, practiceFrameData)
       IN  calls' = [calls EXCEPT ![c] =
                        [@ EXCEPT !.pc = "await",
                                  !.referenceFrameData = referenceFrameData,
                                  !.practiceFrameData = practiceFrameData,
                                  !.accuracyValue = calculateAccuracy(diff)]]
    /\ ret' = NoReturn
    /\ UNCHANGED <<frames, feedbackList, scoreVars>>

\* the primary executeLLM resolves: the entry is stored and the landmark
\* prompt is sent (feedback.ts 43-62)
PrimaryReturns(c, aiFeedback) ==
    /\ calls[c].pc = "await" /\ calls[c].stage = 0
    /\ LET next == [calls[c] EXCEPT
                       !.stage = 1,
                       !.aiFeedback = aiFeedback,
                       !.feedbackID = FeedbackIdOf(calls[c].referenceFrameData,
                                                   calls[c].practiceFrameData)]
       IN  /\ calls' = [calls EXCEPT ![c] = next]
           /\ feedbackList' = push(feedbackList, FeedbackEntry(next))
    /\ ret' = NoReturn
    /\ UNCHANGED <<frames, scoreVars>>

\* an executeLLM rejects: the error leaves analyze (no try/catch)
LLMFails(c) ==
    /\ calls[c].pc = "await"
    /\ calls' = [calls EXCEPT ![c] = [@ EXCEPT !.pc = "threw", !.error = "LLMError"]]
    /\ ret' = NoReturn
    /\ UNCHANGED <<frames, feedbackList, scoreVars>>

\* the landmark executeLLM resolves: validateExistingLandmarks, then the
\* mood prompt is sent (feedback.ts 62-67)
LandmarksReturn(c, existingLandmarks) ==
    /\ calls[c].pc = "await" /\ calls[c].stage = 1
    /\ IF validateExistingLandmarks(existingLandmarks)
       THEN calls' = [calls EXCEPT ![c] = [@ EXCEPT !.stage = 2]]
       ELSE calls' = [calls EXCEPT ![c] =
                         [@ EXCEPT !.pc = "threw", !.stage = 2,
                                   !.error = "UnknownLandmark"]]
    /\ ret' = NoReturn
    /\ UNCHANGED <<frames, feedbackList, scoreVars>>

\* the console.warn calls of the mood and length checks
Warnings(isPositive, aiFeedback) ==
    (IF isPositiveBool(isPositive) THEN {} ELSE {"mood"})
    \cup (IF wordCount(aiFeedback) > WORD_LIMIT THEN {"length"} ELSE {})

\* a mood check that throws where the code warns
MoodReturnsMut(c, isPositive) ==
    /\ calls[c].pc = "await" /\ calls[c].stage = 2
    /\ IF isPositiveBool(isPositive)
       THEN calls' = [calls EXCEPT ![c] =
                         [@ EXCEPT !.pc = "returned", !.stage = 3,
                                   !.warnings = Warnings(isPositive, calls[c].aiFeedback)]]
       ELSE calls' = [calls EXCEPT ![c] =
                         [@ EXCEPT !.pc = "threw", !.stage = 3, !.error = "MoodNotPositive"]]
    /\ ret' = NoReturn
    /\ UNCHANGED <<frames, feedbackList, scoreVars>>

\* the mood executeLLM resolves: both soft checks, then return feedbackID
\* (feedback.ts 67-87)
MoodReturns(c, isPositive) ==
    /\ calls[c].pc = "await" /\ calls[c].stage = 2
    /\ calls' = [calls EXCEPT ![c] =
                     [@ EXCEPT !.pc = "returned", !.stage = 3,
                               !.warnings = Warnings(isPositive, calls[c].aiFeedback)]]
    /\ ret' = NoReturn
    /\ UNCHANGED <<frames, feedbackList, scoreVars>>

\* getFeedback(feedbackID) (feedback.ts 93-102)
GetFeedback(feedbackID) ==
    /\ ret' = [kind |-> "getFeedback", id |-> feedbackID,
               result |-> getFeedback(feedbackList, feedbackID)]
    /\ UNCHANGED <<frames, feedbackList, calls, scoreVars>>

InitStore ==
    /\ frames \in [FrameIds -> AngleSeqs]
    /\ feedbackList = <<>>
    /\ calls = [c \in Calls |-> IdleCall]
    /\ ret = NoReturn

Init ==
    /\ InitStore
    /\ job = NoJob
    /\ result = NoJob

Next ==
    \/ \E c \in Calls, r, p \in FrameIds : AnalyzeCall(c, r, p)
    \/ \E c \in Calls, aiFeedback \in FeedbackTexts : PrimaryReturns(c, aiFeedback)
    \/ \E c \in Calls : LLMFails(c)
    \/ \E c \in Calls, existingLandmarks \in LandmarkResponses :
          LandmarksReturn(c, existingLandmarks)
    \/ \E c \in Calls, isPositive \in MoodResponses : MoodReturns(c, isPositive)
    \/ \E feedbackID \in FeedbackIds : GetFeedback(feedbackID)

Spec == Init /\ [][Next]_vars

\* A caller that awaits each analyze before it makes the next call, as
\* the test cases do: await feedbackSystem.analyze(...).
SequentialCall(c, r, p) ==
    /\ \A d \in Calls : calls[d].pc # "await"
    /\ AnalyzeCall(c, r, p)

NextSeq ==
    \/ \E c \in Calls, r, p \in FrameIds : SequentialCall(c, r, p)
    \/ \E c \in Calls, aiFeedback \in FeedbackTexts : PrimaryReturns(c, aiFeedback)
    \/ \E c \in Calls : LLMFails(c)
    \/ \E c \in Calls, existingLandmarks \in LandmarkResponses :
          LandmarksReturn(c, existingLandmarks)
    \/ \E c \in Calls, isPositive \in MoodResponses : MoodReturns(c, isPositive)
    \/ \E feedbackID \in FeedbackIds : GetFeedback(feedbackID)

SpecSeq == Init /\ [][NextSeq]_vars

(* ------------------------ properties of the store ---------------------- *)

InFlight(c) == calls[c].pc = "await"

\* the primary executeLLM of invocation c has resolved
PrimaryDone(c) == calls[c].stage >= 1

\* some invocation of analyze has stored a record under this identifier
StoredBy(feedbackID) ==
    \E c \in Calls : PrimaryDone(c) /\ calls[c].feedbackID = feedbackID

\* every other invocation has returned its identifier or has not been made
Alone(c) == \A d \in Calls \ {c} : calls[d].pc \in {"idle", "returned"}

\* what getFeedback returns for the record invocation c stored
OwnFeedback(c) ==
    [ok |-> TRUE, feedback |-> calls[c].aiFeedback,
     accuracyValue |-> calls[c].accuracyValue]

\* C1: getFeedback with an identifier under which no analyze call has
\* stored a record throws the not-found error and leaves feedbackList as
\* it was.
C1_GetFeedbackNotFound ==
    [][\A feedbackID \in FeedbackIds :
          (GetFeedback(feedbackID) /\ ~StoredBy(feedbackID))
              => (ret'.result = NotFound /\ feedbackList' = feedbackList)]_vars

C1_Witness ==
    /\ ret.kind = "getFeedback"
    /\ ret.result = NotFound
    /\ Len(feedbackList) >= 1

\* C2: when analyze returns feedbackID after any sequence of earlier
\* calls, getFeedback(feedbackID) yields the text and the accuracy of
\* that very call.
C2_ReturnedIdYieldsOwnRecord ==
    [][\A c \in Calls :
          (InFlight(c) /\ calls'[c].pc = "returned" /\ Alone(c))
              => getFeedback(feedbackList', calls'[c].feedbackID) = OwnFeedback(c)]_vars

\* every landmark the answer lists is a name of the enum
NamesOnly(existingLandmarks) ==
    LET landmarks == ParseLandmarks(existingLandmarks)
    IN  \A i \in 1..Len(landmarks) : Concat(landmarks[i]) \in PoseLandmarkNames

\* C3: whenever the answer to the landmark prompt lists a token that is
\* no PoseLandmark name, analyze throws the unknown-landmark error.
C3_UnknownTokenRejected ==
    [][\A c \in Calls, existingLandmarks \in LandmarkResponses :
          (LandmarksReturn(c, existingLandmarks) /\ ~NamesOnly(existingLandmarks))
              => (calls'[c].pc = "threw" /\ calls'[c].error = "UnknownLandmark")]_vars

\* C4: right after analyze throws the unknown-landmark error, getFeedback
\* with fb-<referenceId>-<practiceId> succeeds and returns the primary
\* feedback text and the accuracy of that call.
C4_RejectedCallIsReadable ==
    [][\A c \in Calls :
          (InFlight(c) /\ calls'[c].error = "UnknownLandmark" /\ Alone(c))
              => getFeedback(feedbackList',
                             FeedbackIdOf(calls[c].referenceFrameData,
                                          calls[c].practiceFrameData))
                    = OwnFeedback(c)]_vars

\* the records the store holds beyond one for each other invocation whose
\* primary call resolved
RecordsLeftFor(c, list, cs) ==
    Len(list) - Cardinality({d \in Calls \ {c} : cs[d].stage >= 1})

\* C5: when one of the three executeLLM calls of an invocation fails, the
\* error leaves analyze and the store holds no record for the invocation.
C5_LLMFailureLeavesNoRecord ==
    [][\A c \in Calls :
          LLMFails(c)
              => /\ calls'[c].pc = "threw"
                 /\ calls'[c].error = "LLMError"
                 /\ RecordsLeftFor(c, feedbackList', calls') = 0]_vars

\* the step in which the mood executeLLM of invocation c resolves, with
\* whatever answer
MoodAnswered(c) ==
    /\ InFlight(c)
    /\ calls[c].stage = 2
    /\ calls'[c].stage = 3

\* C6: once the primary call and the landmark check have succeeded, every
\* answer to the mood prompt and every word count let analyze return the
\* identifier, and the stored record holds the primary answer as it came.
C6_SoftChecksNeverFail ==
    [][\A c \in Calls :
          MoodAnswered(c)
              => /\ calls'[c].pc = "returned"
                 /\ calls'[c].error = ""
                 /\ calls'[c].feedbackID =
                        FeedbackIdOf(calls[c].referenceFrameData,
                                     calls[c].practiceFrameData)
                 /\ \E i \in 1..Len(feedbackList') :
                        /\ feedbackList'[i].feedbackID = calls'[c].feedbackID
                        /\ feedbackList'[i].feedback = calls[c].aiFeedback
                 /\ feedbackList' = feedbackList]_vars

C6_Witness ==
    \E c \in Calls :
        /\ calls[c].pc = "returned"
        /\ calls[c].warnings = {"mood", "length"}
        /\ \E i \in 1..Len(feedbackList) : feedbackList[i].feedback = <<LongRun>>

\* the store holds one record for each invocation whose primary call has
\* resolved, and no other record
OneRecordEach ==
    LET done == {c \in Calls : PrimaryDone(c)}
    IN  /\ Len(feedbackList) = Cardinality(done)
        /\ \E f \in [1..Len(feedbackList) -> done] :
              /\ \A i, j \in 1..Len(feedbackList) : f[i] = f[j] => i = j
              /\ \A i \in 1..Len(feedbackList) :
                    feedbackList[i] = FeedbackEntry(calls[f[i]])

\* a step keeps every stored record in its place
AppendOnly ==
    /\ Len(feedbackList') >= Len(feedbackList)
    /\ \A i \in 1..Len(feedbackList) : feedbackList'[i] = feedbackList[i]

\* C7: however concurrent analyze calls interleave at their awaits, the
\* store holds exactly one record for each call whose primary generation
\* has resolved, and no step removes or alters a stored record.
C7_NoLostAppend == []OneRecordEach /\ [][AppendOnly]_vars

C7_Witness ==
    /\ \A c \in Calls : InFlight(c) /\ PrimaryDone(c)
    /\ Len(feedbackList) = MaxCalls
    /\ \E i, j \in 1..Len(feedbackList) : feedbackList[i] # feedbackList[j]

InPercentRange(q) == q.d > 0 /\ 0 <= q.n /\ q.n <= 100 * q.d

\* C8: the accuracyValue of every stored record lies in [0, 100], for
\* angle arrays with NaN entries, of different lengths, and empty.
C8_AccuracyInRange ==
    \A i \in 1..Len(feedbackList) : InPercentRange(feedbackList[i].accuracyValue)

HasNaN(angles) == \E i \in 1..Len(angles) : isNaN(angles[i])

C8_Witness ==
    \E i, j \in 1..Len(feedbackList) :
        /\ HasNaN(feedbackList[i].referenceFrameData.angles)
        /\ Len(feedbackList[i].practiceFrameData.angles) = 1
        /\ Len(feedbackList[j].referenceFrameData.angles)
              # Len(feedbackList[j].practiceFrameData.angles)
        /\ Len(feedbackList[j].practiceFrameData.angles) = 0

(* ------------------------------ scoring -------------------------------- *)

ScoreAngleValues == {NaN, 0, 45, 180}

ScoreAngleSeqs == SeqsUpTo(ScoreAngleValues, MaxScoreLen)

AngleJob(r, p) ==
    [kind |-> "angles", reference |-> FrameData("reference", r),
     practice |-> FrameData("practice", p)]

PoseJob(l) == [kind |-> "pose", landmarks |-> l]

\* the first lines of analyze on two frames (feedback.ts 31-35)
ScoreAngles ==
    /\ job.kind = "angles"
    /\ result = NoJob
    /\ LET diff == computeAngleDifference(job.reference, job.practice)
       IN  result' = [kind |-> "angles", differences |-> diff,
                      accuracyValue |-> calculateAccuracy(diff)]
    /\ UNCHANGED <<job, storeVars>>

\* one snapshot as reference and as practice, each frame built as the test
\* cases build it: angles: calculateLimbAngles(landmarks)
ScoreSelf ==
    /\ job.kind = "pose"
    /\ result = NoJob
    /\ LET referencePose == FrameData("reference", calculateLimbAngles(job.landmarks))
           practicePose == FrameData("practice", calculateLimbAngles(job.landmarks))
           diff == computeAngleDifference(referencePose, practicePose)
       IN  result' = [kind |-> "pose", angles |-> referencePose.angles,
                      differences |-> diff,
                      accuracyValue |-> calculateAccuracy(diff)]
    /\ UNCHANGED <<job, storeVars>>

InitScore ==
    /\ frames = [id \in FrameIds |-> <<>>]
    /\ feedbackList = <<>>
    /\ calls = [c \in Calls |-> IdleCall]
    /\ ret = NoReturn
    /\ \/ \E r, p \in ScoreAngleSeqs : job = AngleJob(r, p)
       \/ \E l \in Snapshots : job = PoseJob(l)
    /\ result = NoJob

NextScore == ScoreAngles \/ ScoreSelf

SpecScore == InitScore /\ [][NextScore]_vars

(* ----------------------- properties of the scorer ----------------------- *)

\* both landmarks of limb connection i are in the snapshot
Complete(landmarks, i) ==
    /\ landmarks[LIMB_CONNECTIONS[i][1]] # Absent
    /\ landmarks[LIMB_CONNECTIONS[i][2]] # Absent

Connections == 1..Len(LIMB_CONNECTIONS)

\* C9: a snapshot compared with itself has difference zero at every limb
\* connection and accuracy exactly 100.
C9_SelfComparisonIsPerfect ==
    result.kind = "pose"
        => /\ \A i \in Connections : result.differences[i] = 0
           /\ result.accuracyValue = Rat(100, 1)

\* C9 as amended: a snapshot compared with itself has difference zero at
\* every limb connection whose two landmarks it holds and NaN at every
\* other; the accuracy is exactly 100 when it holds both landmarks of at
\* least one connection and 0 when it holds those of none.
C9_SelfComparison ==
    result.kind = "pose"
        => /\ DOMAIN result.differences = Connections
           /\ \A i \in Connections :
                 result.differences[i] = IF Complete(job.landmarks, i) THEN 0 ELSE NaN
           /\ result.accuracyValue =
                 IF \E i \in Connections : Complete(job.landmarks, i)
                 THEN Rat(100, 1) ELSE Rat(0, 1)

C9_Witness ==
    /\ result.kind = "pose"
    /\ \E i, j, k \in Connections :
          /\ ~Complete(job.landmarks, i)
          /\ Complete(job.landmarks, j) /\ Complete(job.landmarks, k)
          /\ result.angles[j] # result.angles[k]
    /\ result.accuracyValue = Rat(100, 1)

\* positions at which the reference and the practice angle are both numbers
BothNumeric(reference, practice) ==
    {i \in 1..Len(reference) :
        i <= Len(practice) /\ ~isNaN(reference[i]) /\ ~isNaN(practice[i])}

\* positions of the reference the practice array has no entry for
Unmatched(reference, practice) == {i \in 1..Len(reference) : i > Len(practice)}

RECURSIVE GapSum(_, _, _)
GapSum(reference, practice, P) ==
    IF P = {} THEN 0
    ELSE LET i == CHOOSE k \in P : TRUE
         IN  Abs(practice[i] - reference[i]) + GapSum(reference, practice, P \ {i})

\* q = max(0, 100 - total / n), or 0 when n = 0
IsClampedMean(q, total, n) ==
    IF n = 0 THEN q = Rat(0, 1)
    ELSE q.n * n = q.d * (IF total >= 100 * n THEN 0 ELSE 100 * n - total)

\* C10: a position whose reference or practice angle is NaN gets a NaN
\* difference, and the accuracy is max(0, 100 - mean |practice -
\* reference|) over exactly the positions where both angles are numbers,
\* 0 when there is none.
C10_SentinelExcluded ==
    result.kind = "angles"
        => LET reference == job.reference.angles
               practice == job.practice.angles
               P == BothNumeric(reference, practice)
           IN  /\ \A i \in 1..Len(reference) :
                     (isNaN(reference[i]) \/ (i <= Len(practice) /\ isNaN(practice[i])))
                         => isNaN(result.differences[i])
               /\ IsClampedMean(result.accuracyValue,
                                GapSum(reference, practice, P), Cardinality(P))

\* C10 as amended: at a position both arrays have, a NaN angle on either
\* side gives a NaN difference, which the mean leaves out; a position of
\* the reference beyond the end of the practice array gets the difference
\* 0 and counts in the mean as a zero.  The accuracy is max(0, 100 - mean)
\* over these positions, 0 when there is none.
C10_SentinelExcludedWherePresent ==
    result.kind = "angles"
        => LET reference == job.reference.angles
               practice == job.practice.angles
               P == BothNumeric(reference, practice)
               U == Unmatched(reference, practice)
           IN  /\ DOMAIN result.differences = 1..Len(reference)
               /\ \A i \in 1..Len(reference) :
                     result.differences[i] =
                         IF i \in U THEN 0
                         ELSE IF i \in P THEN practice[i] - reference[i]
                         ELSE NaN
               /\ IsClampedMean(result.accuracyValue,
                                GapSum(reference, practice, P),
                                Cardinality(P \cup U))

C10_Witness ==
    /\ result.kind = "angles"
    /\ Len(job.reference.angles) = 3
    /\ Len(job.practice.angles) = 3
    /\ \E i, j \in 1..3 :
          /\ isNaN(result.differences[i])
          /\ ~isNaN(result.differences[j]) /\ result.differences[j] # 0
    /\ result.accuracyValue # Rat(0, 1)


(* ---------------------- properties of the extractor --------------------- *)

\* C11: for every snapshot, calculateLimbAngles returns one entry per limb
\* connection, in the order of LIMB_CONNECTIONS: entry i is NaN exactly
\* when the snapshot lacks a landmark of connection i, and is otherwise a
\* number of degrees in [0, 180]; the snapshot is left as it was.
C11_OneAnglePerConnection ==
    /\ [](result.kind = "pose"
            => /\ DOMAIN result.angles = Connections
               /\ \A i \in Connections :
                     /\ isNaN(result.angles[i]) <=> ~Complete(job.landmarks, i)
                     /\ Complete(job.landmarks, i)
                           => (0 <= result.angles[i] /\ result.angles[i] <= 180))
    /\ [][job' = job]_vars

C11_Witness ==
    /\ result.kind = "pose"
    /\ \E i, j, k \in Connections :
          /\ ~Complete(job.landmarks, i) /\ isNaN(result.angles[i])
          /\ result.angles[j] = 180
          /\ 0 < result.angles[k] /\ result.angles[k] < 180

(* ---------------------- properties of the validator --------------------- *)

\* the items between the brackets of a list: none, or landmark names
\* separated by commas, with blanks around a name allowed
IsNameItems(items) ==
    \/ Len(items) = 0
    \/ LET pieces == split(items)
       IN  \A i \in 1..Len(pieces) :
              \E name \in PoseLandmarkNames : trim(pieces[i]) = <<name>>

\* an answer in the format the landmark prompt asks for, [JOINT_A, JOINT_B,
\* ...], that lists landmark names only; "[]" is the list of no joint
IsNameList(existingLandmarks) ==
    /\ Len(existingLandmarks) >= 2
    /\ existingLandmarks[1] = "["
    /\ existingLandmarks[Len(existingLandmarks)] = "]"
    /\ IsNameItems(SubSeq(existingLandmarks, 2, Len(existingLandmarks) - 1))

NameLists == {existingLandmarks \in LandmarkResponses : IsNameList(existingLandmarks)}

\* C12: when the answer to the landmark prompt lists landmark names only,
\* the empty list "[]" included, the vocabulary check passes without the
\* unknown-landmark error, and once the mood answer has come as well
\* analyze returns the identifier.
C12_NameListPasses ==
    [][\A c \in Calls :
          /\ (\E existingLandmarks \in NameLists : LandmarksReturn(c, existingLandmarks))
                => (calls'[c].pc = "await" /\ calls'[c].error = "")
          /\ MoodAnswered(c)
                => /\ calls'[c].pc = "returned"
                   /\ calls'[c].feedbackID =
                          FeedbackIdOf(calls[c].referenceFrameData,
                                       calls[c].practiceFrameData)]_vars

====
